---------------------------- MODULE Spec2Model ----------------------------
(***************************************************************************)
(* Model of src/pip.rs: the wheel package builder (PipPackage), the        *)
(* version normalizer (semver_to_pip_version), the platform tag table      *)
(* (platform_target_tag) and the three package assemblers                  *)
(* (write_base_packages, write_datasette, write_sqlite_utils).             *)
(*                                                                         *)
(* Text.  A Rust String / &[u8] is a sequence of atoms; an atom is a TLA+  *)
(* string.  Package names, versions, pre-release identifiers and payload   *)
(* paths are sequences of one-character atoms, so that replace('-', "_")   *)
(* and split_once('.') work on characters as the code does.  The fixed     *)
(* literals of the format! templates are kept as longer atoms.  The byte   *)
(* length of a text is the sum of the lengths of its atoms.                *)
(*                                                                         *)
(* Hash.  Sha256::digest and URL_SAFE_NO_PAD.encode are library functions  *)
(* whose bits are not modelled: the digest of a text is the symbolic atom  *)
(* "sha256(<bytes>)" (an injective digest) and its encoding the atom       *)
(* "base64url_nopad(<digest>)".  The encoded hash is one atom of a text,   *)
(* as the real one is one run of characters without a line break; its      *)
(* length is not the 43 characters of the real encoding.                   *)
(***************************************************************************)
EXTENDS Naturals, Sequences, FiniteSets, TLC

VARIABLES
    driver,         \* which entry point is running
    spec,           \* the Spec argument: spec.package.name, spec.package.version
    platform_dirs,  \* the &[PlatformDirectory] argument of write_base_packages
    pkg,            \* the PipPackage under construction (NoPkg before new)
    platform,       \* the Option<(&Os, &Cpu)> of the running build
    pc,             \* position of the running entry point
    ret,            \* result of the last call / of the entry point
    assets,         \* write_base_packages: the local Vec<GeneratedAsset>
    idx,            \* write_base_packages: index of the platform_dir of the outer loop
    fidx,           \* write_base_packages: index of the loadable file of the inner loop
    wheel_name_v,   \* the local wheel_name (<<>> before it is computed)
    calls           \* number of write_library_file calls the builder's client made

vars == <<driver, spec, platform_dirs, pkg, platform, pc, ret, assets, idx,
          fidx, wheel_name_v, calls>>

---------------------------------------------------------------------------
(* Bounds of the model.                                                    *)

\* Largest major / minor / patch number drawn for a version.
MaxVer == 11

\* Most write_library_file calls a client of the builder makes before end.
MaxWrites == 2

\* Most platform directories handed to write_base_packages.
MaxPlatforms == 2

---------------------------------------------------------------------------
(* Results: Ok(val), Err(val), or a panic (unwrap / todo! / assert!).      *)

Ok(x) == [tag |-> "Ok", val |-> x]

Err(e) == [tag |-> "Err", val |-> <<e>>]

Panic(why) == [tag |-> "Panic", val |-> <<why>>]

NoRet == [tag |-> "None", val |-> <<>>]

IsOk(r) == r.tag = "Ok"

IsErr(r) == r.tag = "Err"

IsPanic(r) == r.tag = "Panic"

---------------------------------------------------------------------------
(* Text helpers.                                                           *)

RECURSIVE ByteLen(_)
\* str::len / <[u8]>::len: the number of bytes (halving keeps the recursion shallow).
ByteLen(s) ==
    IF Len(s) = 0 THEN 0
    ELSE IF Len(s) = 1 THEN Len(s[1])
    ELSE LET h == Len(s) \div 2 IN
         ByteLen(SubSeq(s, 1, h)) + ByteLen(SubSeq(s, h + 1, Len(s)))

RECURSIVE Flat(_)
\* The bytes of a text as one atom.
Flat(s) ==
    IF Len(s) = 0 THEN ""
    ELSE IF Len(s) = 1 THEN s[1]
    ELSE LET h == Len(s) \div 2 IN
         Flat(SubSeq(s, 1, h)) \o Flat(SubSeq(s, h + 1, Len(s)))

\* str::replace(from, to) for a one-character pattern.
Replace(s, from, to) == [k \in 1..Len(s) |-> IF s[k] = from THEN to ELSE s[k]]

\* Position of the first atom equal to c, 0 when there is none.
FirstIndex(s, c) ==
    IF \E k \in 1..Len(s) : s[k] = c
    THEN CHOOSE k \in 1..Len(s) : s[k] = c /\ \A m \in 1..(k - 1) : s[m] # c
    ELSE 0

\* str::split_once(c): Some((before, after)) at the first c, else None.
split_once(s, c) ==
    LET k == FirstIndex(s, c) IN
    IF k = 0 THEN [some |-> FALSE, a |-> <<>>, b |-> <<>>]
    ELSE [some |-> TRUE, a |-> SubSeq(s, 1, k - 1), b |-> SubSeq(s, k + 1, Len(s))]

Digit(d) == <<"0", "1", "2", "3", "4", "5", "6", "7", "8", "9">>[d + 1]

RECURSIVE NatToText(_)
\* Display for u64: the decimal digits, no leading zero.
NatToText(n) == IF n < 10 THEN <<Digit(n)>>
                ELSE NatToText(n \div 10) \o <<Digit(n % 10)>>

---------------------------------------------------------------------------
(* semver::Version and its Display.                                        *)

Version_new(major, minor, patch) ==
    [major |-> major, minor |-> minor, patch |-> patch, pre |-> <<>>, build |-> <<>>]

\* <semver::Version as Display>::fmt: major.minor.patch[-pre][+build].
Version_to_string(v) ==
    NatToText(v.major) \o <<".">> \o NatToText(v.minor) \o <<".">> \o NatToText(v.patch)
    \o (IF v.pre # <<>> THEN <<"-">> \o v.pre ELSE <<>>)
    \o (IF v.build # <<>> THEN <<"+">> \o v.build ELSE <<>>)

alpha == <<"a", "l", "p", "h", "a">>

beta == <<"b", "e", "t", "a">>

rc == <<"r", "c">>

\* semver_to_pip_version with the (None, Some(_build)) arm returning the bare
\* major.minor.patch (a slip that would drop the build metadata).
semver_to_pip_version_dropbuild(v) ==
    IF v.pre = <<>> THEN Ok(Version_to_string(Version_new(v.major, v.minor, v.patch)))
    ELSE IF v.build # <<>> THEN Panic("todo")
    ELSE LET base == Version_to_string(Version_new(v.major, v.minor, v.patch))
             sp == split_once(v.pre, ".")
         IN IF ~sp.some THEN Panic("unwrap")
            ELSE IF sp.a = alpha THEN Ok(base \o <<"a">> \o sp.b)
            ELSE IF sp.a = beta THEN Ok(base \o <<"b">> \o sp.b)
            ELSE IF sp.a = rc THEN Ok(base \o rc \o sp.b)
            ELSE Panic("todo")

\* semver_to_pip_version with the beta arm emitting the alpha code and a
\* missing '.' tolerated (the identifier taken as the kind, with no number).
semver_to_pip_version_lax(v) ==
    IF v.pre = <<>> THEN Ok(Version_to_string(v))
    ELSE IF v.build # <<>> THEN Panic("todo")
    ELSE LET base == Version_to_string(Version_new(v.major, v.minor, v.patch))
             sp == split_once(v.pre, ".")
             a == IF sp.some THEN sp.a ELSE v.pre
             b == sp.b
         IN IF a = alpha THEN Ok(base \o <<"a">> \o b)
            ELSE IF a = beta THEN Ok(base \o <<"a">> \o b)
            ELSE IF a = rc THEN Ok(base \o rc \o b)
            ELSE Panic("todo")

semver_to_pip_version(v) ==
    IF v.pre = <<>> /\ v.build = <<>> THEN Ok(Version_to_string(v))
    ELSE IF v.pre = <<>> /\ v.build # <<>> THEN Ok(Version_to_string(v))
    ELSE IF v.pre # <<>> /\ v.build = <<>> THEN
        LET base == Version_to_string(Version_new(v.major, v.minor, v.patch))
            sp == split_once(v.pre, ".")
        IN IF ~sp.some THEN Panic("unwrap: pre-release without '.'")
           ELSE IF sp.a = alpha THEN Ok(base \o <<"a">> \o sp.b)
           ELSE IF sp.a = beta THEN Ok(base \o <<"b">> \o sp.b)
           ELSE IF sp.a = rc THEN Ok(base \o rc \o sp.b)
           ELSE Panic("todo: pre-release kind")
    ELSE Panic("todo: pre-release with build metadata")

---------------------------------------------------------------------------
(* Os, Cpu and the platform tag table.                                     *)

Os == {"Macos", "Linux", "Windows"}

Cpu == {"X86_64", "Aarch64"}

platform_target_tag(os, cpu) ==
    IF os = "Macos" /\ cpu = "X86_64" THEN Ok(<<"macosx_10_6_x86_64">>)
    ELSE IF os = "Macos" /\ cpu = "Aarch64" THEN Ok(<<"macosx_11_0_arm64">>)
    ELSE IF os = "Linux" /\ cpu = "X86_64" THEN
        Ok(<<"manylinux_2_17_x86_64.manylinux2014_x86_64.manylinux1_x86_64">>)
    ELSE IF os = "Linux" /\ cpu = "Aarch64" THEN
        Ok(<<"manylinux_2_17_aarch64.manylinux2014_aarch64.whl">>)
    ELSE IF os = "Windows" /\ cpu = "X86_64" THEN Ok(<<"win_amd64">>)
    ELSE Panic("todo: Windows/Aarch64")

None == [some |-> FALSE, os |-> "", cpu |-> ""]

Some(os, cpu) == [some |-> TRUE, os |-> os, cpu |-> cpu]

\* The match on `platform` shared by wheel_name and dist_info_wheel.
platform_tag_of(p) == IF p.some THEN platform_target_tag(p.os, p.cpu) ELSE Ok(<<"any">>)

---------------------------------------------------------------------------
(* PipPackageFile, the ZipWriter and PipPackage.                           *)

\* sha2::Sha256::digest, symbolic (see the header): one atom naming the bytes.
Sha256_digest(data) == "sha256(" \o Flat(data) \o ")"

\* base64 URL_SAFE_NO_PAD.encode, symbolic: URL-safe alphabet, no '=' padding.
\* The String it returns is the single atom.
URL_SAFE_NO_PAD_encode(digest) == <<"base64url_nopad(" \o digest \o ")">>

PipPackageFile_new(path, data) ==
    [path |-> path,
     hash |-> URL_SAFE_NO_PAD_encode(Sha256_digest(data)),
     size |-> ByteLen(data)]

\* What the archive writer does with one start_file + write_all pair.
\*   "ok"         both succeed
\*   "start_file" start_file returns Err (e.g. a duplicate or invalid name)
\*   "write_all"  start_file succeeds, write_all returns Err
IoOutcomes == {"ok", "start_file", "write_all"}

\* zip::ZipWriter::new(Cursor::new(Vec::new())).
ZipWriter_new == [files |-> <<>>, finished |-> FALSE]

\* ZipWriter::start_file followed by write_all, as write_file calls them.
ZipWriter_put(zip, path, data, io) ==
    IF io = "start_file" THEN zip
    ELSE IF io = "write_all"
    THEN [zip EXCEPT !.files = Append(@, [name |-> path, data |-> <<>>, complete |-> FALSE])]
    ELSE [zip EXCEPT !.files = Append(@, [name |-> path, data |-> data, complete |-> TRUE])]

NoPkg == [none |-> TRUE]

PipPackage_new(package_name, package_version) ==
    LET ver == semver_to_pip_version(package_version) IN
    IF IsPanic(ver) THEN ver
    ELSE Ok([zipfile |-> ZipWriter_new,
             package_name |-> package_name,
             python_package_name |-> Replace(package_name, "-", "_"),
             package_version |-> ver.val,
             written_files |-> <<>>])

\* Result of a &mut self method: the builder afterwards and the value returned.
Step(p, r) == [pkg |-> p, res |-> r]

\* write_file that records the manifest entry before the archive accepts the
\* member (the push moved above the two `?`).
write_file_eager(p, path, data, io) ==
    Step([p EXCEPT !.zipfile = ZipWriter_put(@, path, data, io),
                   !.written_files = Append(@, PipPackageFile_new(path, data))],
         IF io = "ok" THEN Ok(<<>>) ELSE Err("ZipError"))

write_file(p, path, data, io) ==
    IF io = "ok"
    THEN Step([p EXCEPT !.zipfile = ZipWriter_put(@, path, data, io),
                        !.written_files = Append(@, PipPackageFile_new(path, data))],
              Ok(<<>>))
    ELSE Step([p EXCEPT !.zipfile = ZipWriter_put(@, path, data, io)], Err("ZipError"))

write_library_file(p, path, data, io) ==
    write_file(p, p.python_package_name \o <<"/">> \o path, data, io)

dist_info_file(p, file) ==
    p.python_package_name \o <<"-">> \o p.package_version \o <<".dist-info/">> \o file

wheel_name(p, plat) ==
    LET tag == platform_tag_of(plat) IN
    IF IsPanic(tag) THEN tag
    ELSE Ok(p.python_package_name \o <<"-">> \o p.package_version \o <<"-">> \o <<"py3">>
            \o <<"-">> \o <<"none">> \o <<"-">> \o tag.val \o <<".whl">>)

---------------------------------------------------------------------------
(* mod templates.                                                          *)

dist_info_metadata(p) ==
    <<"Metadata-Version: 2.1", "\n", "Name: ">> \o p.package_name
    \o <<"\n", "Version: ">> \o p.package_version
    \o <<"\n", "Home-page: https://TODO.com", "\n", "Author: TODO", "\n",
         "License: MIT License, Apache License, Version 2.0", "\n",
         "Description-Content-Type: text/markdown", "\n", "\n", "TODO readme">>

dist_info_wheel(plat) ==
    LET tag == platform_tag_of(plat) IN
    IF IsPanic(tag) THEN tag
    ELSE Ok(<<"Wheel-Version: 1.0", "\n", "Generator: ", "{CARGO_PKG_NAME}", " ",
              "{CARGO_PKG_VERSION}", "\n", "Root-Is-Purelib: false", "\n", "Tag: ">>
            \o <<"py3-none-">> \o tag.val)

dist_info_top_level_txt(p) == p.python_package_name \o <<"\n">>

RECURSIVE RecordLines(_)
\* The for loop of dist_info_record: one line per manifest entry.
RecordLines(files) ==
    IF files = <<>> THEN <<>>
    ELSE Head(files).path \o <<",sha256=">> \o Head(files).hash \o <<",">>
         \o NatToText(Head(files).size) \o <<"\n">> \o RecordLines(Tail(files))

\* dist_info_record that iterates over the payload entries only, skipping the
\* dist-info members (a RECORD that lists the payload alone).
dist_info_record_payload_only(p, record_path) ==
    RecordLines(SelectSeq(p.written_files,
                          LAMBDA f : Len(f.path) > Len(p.python_package_name)
                                     /\ f.path[Len(p.python_package_name) + 1] = "/"))
    \o record_path \o <<",,", "\n">>

dist_info_record(p, record_path) ==
    RecordLines(p.written_files) \o record_path \o <<",,", "\n">>

base_init_py(p, entrypoint) ==
    <<"\n", "import os", "\n", "import sqlite3", "\n", "\n", "__version__ = \"">>
    \o p.package_version
    \o <<"\"", "\n", "__version_info__ = tuple(__version__.split(\".\"))", "\n", "\n",
         "def loadable_path():", "\n",
         "  loadable_path = os.path.join(os.path.dirname(__file__), \"">>
    \o entrypoint
    \o <<"\")", "\n", "  return os.path.normpath(loadable_path)", "\n", "\n",
         "def load(conn: sqlite3.Connection)  -> None:", "\n",
         "  conn.load_extension(loadable_path())", "\n">>

\* The body shared, letter for letter, by the two wrapper templates.
hook_init_py(tool, dep_library, version) ==
    <<"\n", "from ", tool, " import hookimpl", "\n", "import ">> \o dep_library
    \o <<"\n", "\n", "__version__ = \"">> \o version
    \o <<"\"", "\n", "__version_info__ = tuple(__version__.split(\".\"))", "\n", "\n",
         "@hookimpl", "\n", "def prepare_connection(conn):", "\n",
         "  conn.enable_load_extension(True)", "\n", "  ">>
    \o dep_library
    \o <<".load(conn)", "\n", "  conn.enable_load_extension(False)", "\n">>

sqlite_utils_init_py(p) == hook_init_py("sqlite_utils", p.python_package_name, p.package_version)

datasette_init_py(p) == hook_init_py("datasette", p.python_package_name, p.package_version)

---------------------------------------------------------------------------
(* The dist-info writers of PipPackage.                                    *)

METADATA == <<"METADATA">>

WHEEL == <<"WHEEL">>

TOP_LEVEL == <<"top_level.txt">>

RECORD == <<"RECORD">>

write_dist_info_metadata(p, io) ==
    write_file(p, dist_info_file(p, METADATA), dist_info_metadata(p), io)

\* write_dist_info_record that enters RECORD in the manifest before the text
\* is generated, so that RECORD describes itself with a hash.
write_dist_info_record_selfhash(p, io) ==
    LET record_path == dist_info_file(p, RECORD)
        q == [p EXCEPT !.written_files = Append(@, PipPackageFile_new(record_path, <<>>))]
    IN write_file(q, record_path, dist_info_record(q, record_path), io)

write_dist_info_record(p, io) ==
    LET record_path == dist_info_file(p, RECORD) IN
    write_file(p, record_path, dist_info_record(p, record_path), io)

write_dist_info_top_level_txt(p, io) ==
    write_file(p, dist_info_file(p, TOP_LEVEL), dist_info_top_level_txt(p), io)

\* The template is evaluated first (it is an argument of write_file), so an
\* unsupported platform panics before the archive is touched by this call.
write_dist_info_wheel(p, plat, io) ==
    LET text == dist_info_wheel(plat) IN
    IF IsPanic(text) THEN Step(p, text)
    ELSE write_file(p, dist_info_file(p, WHEEL), text.val, io)

---------------------------------------------------------------------------
(* Inputs.                                                                 *)

Names == { <<"m", "y", "-", "e", "x", "t">>, <<"a", "-", "b", "-", "c">> }

PreReleases ==
    { <<>>,
      alpha \o <<".", "3">>,
      beta \o <<".", "1">>,
      rc \o <<".", "2">>,
      alpha \o <<".", "1", ".", "2">>,
      alpha,
      <<"g", "a", "m", "m", "a", ".", "1">>,
      <<"x", ".">> \o alpha \o <<".", "3">> }

Builds == { <<>>, <<"b", "7">> }

\* Every version the normalizer is tried on.
AllVersions ==
    [major : 0..MaxVer, minor : 0..MaxVer, patch : 0..MaxVer,
     pre : PreReleases, build : Builds]

V(major, minor, patch, pre, build) ==
    [major |-> major, minor |-> minor, patch |-> patch, pre |-> pre, build |-> build]

\* The versions the builds are run with: plain, pre-release, build metadata,
\* and the two shapes the normalizer rejects.
BuildVersions ==
    { V(1, 2, 0, <<>>, <<>>),
      V(1, 2, 0, alpha \o <<".", "3">>, <<>>),
      V(0, 10, 1, <<>>, <<"b", "7">>),
      V(1, 0, 0, <<"g", "a", "m", "m", "a", ".", "1">>, <<>>),
      V(1, 0, 0, rc \o <<".", "2">>, <<"b", "7">>) }

Specs == [package : [name : Names, version : BuildVersions]]

\* Paths a client hands to write_library_file; the last one holds a line break.
Paths == { <<"e", "x", "t", ".", "s", "o">>, <<"a", "\n", "b">> }

Datas == { <<>>, <<"E", "L", "F">> }

\* The platforms a client of the builder ends a build with.
Platforms == { None, Some("Linux", "X86_64"), Some("Windows", "Aarch64") }

LoadableFile(stem, ext, data) ==
    [file_stem |-> stem, file |-> [name |-> stem \o ext, data |-> data]]

ext_so == LoadableFile(<<"e", "x", "t">>, <<".", "s", "o">>, <<"E", "L", "F">>)

aux_so == LoadableFile(<<"a", "u", "x">>, <<".", "s", "o">>, <<>>)

PlatformDirectory(os, cpu, files) == [os |-> os, cpu |-> cpu, loadable_files |-> files]

PlatformDirectories ==
    { PlatformDirectory(os, cpu, <<ext_so>>) : os \in Os, cpu \in Cpu }
    \cup { PlatformDirectory("Linux", "X86_64", <<>>),
           PlatformDirectory("Macos", "Aarch64", <<ext_so, aux_so>>) }

RECURSIVE SeqsUpTo(_, _)
SeqsUpTo(S, n) ==
    IF n = 0 THEN { <<>> }
    ELSE LET shorter == SeqsUpTo(S, n - 1) IN
         shorter \cup { Append(q, x) : q \in shorter, x \in S }

---------------------------------------------------------------------------
(* PipPackage::end, one step per statement.  The steps are shared by every *)
(* entry point; pc = "end_return" is the return of end with its result in  *)
(* ret, pc = "panic" a panic that unwinds the entry point.                 *)

\* Effect of `self.write_...()?` inside end: go on, or return the error.
EndStep(s, next) ==
    /\ pkg' = s.pkg
    /\ IF IsPanic(s.res) THEN pc' = "panic" /\ ret' = s.res
       ELSE IF IsErr(s.res) THEN pc' = "end_return" /\ ret' = s.res
       ELSE pc' = next /\ ret' = ret
    /\ UNCHANGED <<driver, spec, platform_dirs, platform, assets, idx, fidx,
                   wheel_name_v, calls>>

end_metadata ==
    /\ pc = "end_metadata"
    /\ \E io \in IoOutcomes : EndStep(write_dist_info_metadata(pkg, io), "end_wheel")

end_wheel ==
    /\ pc = "end_wheel"
    /\ \E io \in IoOutcomes : EndStep(write_dist_info_wheel(pkg, platform, io), "end_top_level")

\* end with the RECORD step forgotten: the archive is closed after top_level.txt.
end_top_level_txt_no_record ==
    /\ pc = "end_top_level"
    /\ \E io \in IoOutcomes : EndStep(write_dist_info_top_level_txt(pkg, io), "end_finish")

end_top_level_txt ==
    /\ pc = "end_top_level"
    /\ \E io \in IoOutcomes : EndStep(write_dist_info_top_level_txt(pkg, io), "end_record")

end_record ==
    /\ pc = "end_record"
    /\ \E io \in IoOutcomes : EndStep(write_dist_info_record(pkg, io), "end_finish")

\* self.zipfile.finish(): closes the archive and yields the buffer, or fails.
end_finish ==
    /\ pc = "end_finish"
    /\ \E io \in {"ok", "finish"} :
          IF io = "ok"
          THEN /\ pkg' = [pkg EXCEPT !.zipfile.finished = TRUE]
               /\ ret' = Ok(pkg.zipfile.files)
          ELSE /\ pkg' = pkg
               /\ ret' = Err("ZipError")
    /\ pc' = "end_return"
    /\ UNCHANGED <<driver, spec, platform_dirs, platform, assets, idx, fidx,
                   wheel_name_v, calls>>

---------------------------------------------------------------------------
(* A client of the public builder API: new, write_library_file*, end.      *)

api_new ==
    /\ driver = "api" /\ pc = "start"
    /\ LET r == PipPackage_new(spec.package.name, spec.package.version) IN
       IF IsPanic(r) THEN pc' = "panic" /\ ret' = r /\ pkg' = pkg
       ELSE pc' = "open" /\ ret' = NoRet /\ pkg' = r.val
    /\ UNCHANGED <<driver, spec, platform_dirs, platform, assets, idx, fidx,
                   wheel_name_v, calls>>

\* One call of write_library_file; on Err the client still owns the builder.
api_write_library_file ==
    /\ driver = "api" /\ pc = "open" /\ calls < MaxWrites
    /\ \E path \in Paths, data \in Datas, io \in IoOutcomes :
          LET s == write_library_file(pkg, path, data, io) IN
          pkg' = s.pkg /\ ret' = s.res
    /\ calls' = calls + 1
    /\ UNCHANGED <<driver, spec, platform_dirs, platform, pc, assets, idx, fidx,
                   wheel_name_v>>

\* The call of end(platform): the builder is moved into it.
api_end ==
    /\ driver = "api" /\ pc = "open"
    /\ \E plat \in Platforms : platform' = plat
    /\ pc' = "end_metadata"
    /\ ret' = NoRet
    /\ UNCHANGED <<driver, spec, platform_dirs, pkg, assets, idx, fidx,
                   wheel_name_v, calls>>

InitCommon ==
    /\ pkg = NoPkg
    /\ platform = None
    /\ pc = "start"
    /\ ret = NoRet
    /\ assets = <<>>
    /\ idx = 1
    /\ fidx = 1
    /\ wheel_name_v = <<>>
    /\ calls = 0

Init ==
    /\ driver = "api"
    /\ spec \in Specs
    /\ platform_dirs = <<>>
    /\ InitCommon

Next ==
    \/ api_new
    \/ api_write_library_file
    \/ api_end
    \/ end_metadata
    \/ end_wheel
    \/ end_top_level_txt
    \/ end_record
    \/ end_finish

Spec == Init /\ [][Next]_vars

---------------------------------------------------------------------------
(* The collaborators of the assemblers that live outside pip.rs.           *)

\* std::path::Path::join: an absolute right-hand side replaces the left.
Path_join(a, b) == IF b # <<>> /\ b[1] = "/" THEN b ELSE a \o <<"/">> \o b

\* GeneratedAsset::from(kind, path, data): writes the buffer to the path and
\* yields the named asset, or fails with an io::Error.
GeneratedAsset_from(kind, path, data, io) ==
    IF io = "ok" THEN Ok([kind |-> kind, path |-> path, data |-> data])
    ELSE Err("IOError")

pip_path == <<"pip">>

datasette_path == <<"datasette">>

sqlite_utils_path == <<"sqlite_utils">>

INIT_PY == <<"__init__.py">>

\* `return Err(..)` / `return Ok(..)` of the entry point.
Return(r) == pc' = "done" /\ ret' = r

---------------------------------------------------------------------------
(* write_base_packages.                                                    *)

\* Head of the outer loop with the first three statements of its body:
\* PipPackage::new, the assert! and the lookup of the entrypoint.
write_base_packages_next ==
    /\ driver = "base" /\ pc = "base_loop" /\ idx <= Len(platform_dirs)
    /\ LET r == PipPackage_new(spec.package.name, spec.package.version) IN
       IF IsPanic(r) THEN pc' = "panic" /\ ret' = r /\ pkg' = NoPkg
       ELSE IF ~(Len(platform_dirs[idx].loadable_files) >= 1)
       THEN pc' = "panic" /\ ret' = Panic("assert: loadable_files") /\ pkg' = r.val
       ELSE pc' = "base_init" /\ ret' = NoRet /\ pkg' = r.val
    /\ wheel_name_v' = <<>>
    /\ platform' = None
    /\ UNCHANGED <<driver, spec, platform_dirs, assets, idx, fidx, calls>>

write_base_packages_init ==
    /\ driver = "base" /\ pc = "base_init"
    /\ \E io \in IoOutcomes :
          LET entrypoint == platform_dirs[idx].loadable_files[1].file_stem
              s == write_library_file(pkg, INIT_PY, base_init_py(pkg, entrypoint), io)
          IN /\ pkg' = s.pkg
             /\ IF IsErr(s.res) THEN Return(Err("ZipError")) /\ fidx' = fidx
                ELSE pc' = "base_files" /\ ret' = ret /\ fidx' = 1
    /\ UNCHANGED <<driver, spec, platform_dirs, platform, assets, idx, wheel_name_v, calls>>

\* One turn of the inner loop.
write_base_packages_file ==
    /\ driver = "base" /\ pc = "base_files"
    /\ fidx <= Len(platform_dirs[idx].loadable_files)
    /\ \E io \in IoOutcomes :
          LET f == platform_dirs[idx].loadable_files[fidx]
              s == write_library_file(pkg, f.file.name, f.file.data, io)
          IN /\ pkg' = s.pkg
             /\ IF IsErr(s.res) THEN Return(Err("ZipError")) /\ fidx' = fidx
                ELSE pc' = pc /\ ret' = ret /\ fidx' = fidx + 1
    /\ UNCHANGED <<driver, spec, platform_dirs, platform, assets, idx, wheel_name_v, calls>>

\* After the inner loop: platform, wheel_name, and the call of end.
write_base_packages_wheel_name ==
    /\ driver = "base" /\ pc = "base_files"
    /\ fidx > Len(platform_dirs[idx].loadable_files)
    /\ platform' = Some(platform_dirs[idx].os, platform_dirs[idx].cpu)
    /\ LET wn == wheel_name(pkg, platform') IN
       IF IsPanic(wn) THEN pc' = "panic" /\ ret' = wn /\ wheel_name_v' = wheel_name_v
       ELSE pc' = "end_metadata" /\ ret' = ret /\ wheel_name_v' = wn.val
    /\ UNCHANGED <<driver, spec, platform_dirs, pkg, assets, idx, fidx, calls>>

\* write_base_packages whose failed wheel is skipped and the loop goes on.
write_base_packages_asset_skip ==
    /\ driver = "base" /\ pc = "end_return"
    /\ \E io \in {"ok", "io"} :
          LET a == IF IsErr(ret) THEN ret
                   ELSE GeneratedAsset_from(
                            <<"Pip", platform_dirs[idx].os, platform_dirs[idx].cpu>>,
                            Path_join(pip_path, wheel_name_v), ret.val, io)
          IN /\ assets' = IF IsErr(a) THEN assets ELSE Append(assets, a.val)
             /\ pc' = "base_loop" /\ ret' = NoRet /\ idx' = idx + 1
    /\ UNCHANGED <<driver, spec, platform_dirs, pkg, platform, fidx, wheel_name_v, calls>>

\* `pkg.end(platform)?.into_inner()` has returned: the `?`, then
\* GeneratedAsset::from(..)? and the push.
write_base_packages_asset ==
    /\ driver = "base" /\ pc = "end_return"
    /\ IF IsErr(ret) THEN Return(Err("ZipError")) /\ UNCHANGED <<assets, idx>>
       ELSE \E io \in {"ok", "io"} :
          LET a == GeneratedAsset_from(
                       <<"Pip", platform_dirs[idx].os, platform_dirs[idx].cpu>>,
                       Path_join(pip_path, wheel_name_v), ret.val, io)
          IN IF IsErr(a) THEN Return(a) /\ UNCHANGED <<assets, idx>>
             ELSE /\ assets' = Append(assets, a.val)
                  /\ pc' = "base_loop" /\ ret' = NoRet /\ idx' = idx + 1
    /\ UNCHANGED <<driver, spec, platform_dirs, pkg, platform, fidx, wheel_name_v, calls>>

\* The loop is over: Ok(assets).
write_base_packages_return ==
    /\ driver = "base" /\ pc = "base_loop" /\ idx > Len(platform_dirs)
    /\ Return(Ok(assets))
    /\ UNCHANGED <<driver, spec, platform_dirs, pkg, platform, assets, idx, fidx,
                   wheel_name_v, calls>>

---------------------------------------------------------------------------
(* write_datasette and write_sqlite_utils.                                 *)

datasette_prefix == <<"d", "a", "t", "a", "s", "e", "t", "t", "e", "-">>

sqlite_utils_prefix == <<"s", "q", "l", "i", "t", "e", "-", "u", "t", "i", "l", "s", "-">>

\* PipPackage::new(name, version) as the first statement of a wrapper.
WrapperNew(name) ==
    /\ LET r == PipPackage_new(name, spec.package.version) IN
       IF IsPanic(r) THEN pc' = "panic" /\ ret' = r /\ pkg' = NoPkg
       ELSE pc' = "wrapper_init" /\ ret' = NoRet /\ pkg' = r.val
    /\ UNCHANGED <<driver, spec, platform_dirs, platform, assets, idx, fidx,
                   wheel_name_v, calls>>

\* write_library_file("__init__.py", ..)?, wheel_name(None), the call of end(None).
WrapperInit(text) ==
    /\ \E io \in IoOutcomes :
          LET s == write_library_file(pkg, INIT_PY, text, io) IN
          /\ pkg' = s.pkg
          /\ IF IsErr(s.res) THEN Return(Err("ZipError")) /\ wheel_name_v' = wheel_name_v
             ELSE /\ pc' = "end_metadata" /\ ret' = ret
                  /\ wheel_name_v' = wheel_name(pkg, None).val
    /\ platform' = None
    /\ UNCHANGED <<driver, spec, platform_dirs, assets, idx, fidx, calls>>

\* end(None)? and Ok(GeneratedAsset::from(kind, path.join(wheel_name), &result)?).
WrapperAsset(kind, path) ==
    /\ IF IsErr(ret) THEN Return(Err("ZipError"))
       ELSE \E io \in {"ok", "io"} :
               Return(GeneratedAsset_from(kind, Path_join(path, wheel_name_v), ret.val, io))
    /\ UNCHANGED <<driver, spec, platform_dirs, pkg, platform, assets, idx, fidx,
                   wheel_name_v, calls>>

write_datasette_new ==
    /\ driver = "datasette" /\ pc = "start"
    /\ WrapperNew(datasette_prefix \o spec.package.name)

write_datasette_init ==
    /\ driver = "datasette" /\ pc = "wrapper_init"
    /\ WrapperInit(datasette_init_py(pkg))

write_datasette_asset ==
    /\ driver = "datasette" /\ pc = "end_return"
    /\ WrapperAsset(<<"Datasette">>, datasette_path)

write_sqlite_utils_new ==
    /\ driver = "sqlite_utils" /\ pc = "start"
    /\ WrapperNew(sqlite_utils_prefix \o spec.package.name)

write_sqlite_utils_init ==
    /\ driver = "sqlite_utils" /\ pc = "wrapper_init"
    /\ WrapperInit(sqlite_utils_init_py(pkg))

write_sqlite_utils_asset ==
    /\ driver = "sqlite_utils" /\ pc = "end_return"
    /\ WrapperAsset(<<"SqliteUtils">>, sqlite_utils_path)

InitAssemble ==
    /\ \/ /\ driver = "base"
          /\ platform_dirs \in SeqsUpTo(PlatformDirectories, MaxPlatforms)
          /\ pc = "base_loop"
       \/ /\ driver \in {"datasette", "sqlite_utils"}
          /\ platform_dirs = <<>>
          /\ pc = "start"
    /\ spec \in Specs
    /\ pkg = NoPkg
    /\ platform = None
    /\ ret = NoRet
    /\ assets = <<>>
    /\ idx = 1
    /\ fidx = 1
    /\ wheel_name_v = <<>>
    /\ calls = 0

NextAssemble ==
    \/ write_base_packages_next
    \/ write_base_packages_init
    \/ write_base_packages_file
    \/ write_base_packages_wheel_name
    \/ write_base_packages_asset
    \/ write_base_packages_return
    \/ write_datasette_new
    \/ write_datasette_init
    \/ write_datasette_asset
    \/ write_sqlite_utils_new
    \/ write_sqlite_utils_init
    \/ write_sqlite_utils_asset
    \/ end_metadata
    \/ end_wheel
    \/ end_top_level_txt
    \/ end_record
    \/ end_finish

SpecAssemble == InitAssemble /\ [][NextAssemble]_vars

---------------------------------------------------------------------------
(* The version normalizer on its own.                                      *)

semver_call ==
    /\ driver = "semver" /\ pc = "start"
    /\ ret' = semver_to_pip_version(spec.package.version)
    /\ pc' = "done"
    /\ UNCHANGED <<driver, spec, platform_dirs, pkg, platform, assets, idx, fidx,
                   wheel_name_v, calls>>

InitVersion ==
    /\ driver = "semver"
    /\ spec \in [package : [name : {<<"m", "y", "-", "e", "x", "t">>}, version : AllVersions]]
    /\ platform_dirs = <<>>
    /\ InitCommon

NextVersion == semver_call

SpecVersion == InitVersion /\ [][NextVersion]_vars

---------------------------------------------------------------------------
(* Vocabulary of the properties.                                           *)

Built == pkg # NoPkg

Files == pkg.zipfile.files

RecordPath == dist_info_file(pkg, RECORD)

DistInfoOrder == <<METADATA, WHEEL, TOP_LEVEL, RECORD>>

DistInfoPaths == [k \in 1..4 |-> dist_info_file(pkg, DistInfoOrder[k])]

IsDistInfo(name) == \E k \in 1..4 : name = DistInfoPaths[k]

IsPrefix(a, b) == Len(a) <= Len(b) /\ SubSeq(b, 1, Len(a)) = a

\* A member written through write_library_file: {import_name}/...
IsPayloadOf(p, name) == IsPrefix(p.python_package_name \o <<"/">>, name)

IsPayload(name) == IsPayloadOf(pkg, name)

\* Members that start_file and write_all both accepted.
CompleteAt == { k \in DOMAIN Files : Files[k].complete }

PayloadAt == { k \in CompleteAt : IsPayload(Files[k].name) }

\* end returned Ok(buffer).
BuildOk == Built /\ pc = "end_return" /\ IsOk(ret)

Newlines(text) == { k \in DOMAIN text : text[k] = "\n" }

LineStart(text, k) ==
    LET before == { j \in Newlines(text) : j < k } IN
    IF before = {} THEN 1 ELSE 1 + CHOOSE j \in before : \A m \in before : m <= j

\* The line that the line break at position k ends.
LineAt(text, k) == SubSeq(text, LineStart(text, k), k - 1)

LinesOf(text) == { LineAt(text, k) : k \in Newlines(text) }

HasLineBreak(text) == \E k \in DOMAIN text : text[k] = "\n"

\* The RECORD text in the archive (<<>> while RECORD is not written).
RecordText ==
    IF \E k \in CompleteAt : Files[k].name = RecordPath
    THEN Files[CHOOSE k \in CompleteAt : Files[k].name = RecordPath].data
    ELSE <<>>

\* The RECORD line of a member with the given bytes.
ExpectedLine(name, data) ==
    name \o <<",sha256=">> \o URL_SAFE_NO_PAD_encode(Sha256_digest(data))
    \o <<",">> \o NatToText(ByteLen(data))

\* The manifest entry of a member.
ExpectedEntry(m) ==
    [path |-> m.name,
     hash |-> URL_SAFE_NO_PAD_encode(Sha256_digest(m.data)),
     size |-> ByteLen(m.data)]

---------------------------------------------------------------------------
(* C1.                                                                     *)

\* C1 (as claimed): after N successful payload writes and a successful end,
\* RECORD has exactly N+1 lines.
C1_RecordHasNPlus1Lines ==
    BuildOk => Cardinality(Newlines(RecordText)) = Cardinality(PayloadAt) + 1

\* C1 (amended): after N successful payload writes and a successful end, with
\* no line break in the package name or in a payload path, RECORD has exactly
\* N+4 lines: one line per payload file with its path, hash and size, one line
\* for each of METADATA, WHEEL and top_level.txt, and last the line of the
\* RECORD path itself with empty hash and size fields.
C1_RecordHasNPlus4Lines ==
    (BuildOk /\ \A k \in DOMAIN Files : ~HasLineBreak(Files[k].name)) =>
        /\ Cardinality(Newlines(RecordText)) = Cardinality(PayloadAt) + 4
        /\ RecordText[Len(RecordText)] = "\n"
        /\ LineAt(RecordText, Len(RecordText)) = RecordPath \o <<",,">>
        /\ \A k \in CompleteAt :
              Files[k].name # RecordPath =>
                  ExpectedLine(Files[k].name, Files[k].data) \in LinesOf(RecordText)

\* A build with two payload files ended well and its RECORD has six lines.
C1_Witness ==
    /\ BuildOk
    /\ Cardinality(PayloadAt) = 2
    /\ \A k \in DOMAIN Files : ~HasLineBreak(Files[k].name)
    /\ Cardinality(Newlines(RecordText)) = 6

---------------------------------------------------------------------------
(* C7.                                                                     *)

RecordEntries == { k \in DOMAIN pkg.written_files : pkg.written_files[k].path = RecordPath }

\* C7 (as claimed): in every state of a builder the manifest has no entry for
\* the RECORD file.
C7_NoRecordEntryEver == Built => RecordEntries = {}

\* C7 (amended): the manifest has no entry for RECORD until write_file has
\* written the RECORD member itself; that write then hashes RECORD and appends
\* it as the last manifest entry, which only finish() follows.  The RECORD
\* text, generated before that append, names the RECORD path in its trailing
\* empty-hash line and (no path holding a line break) in no other line.
C7_RecordEntryOnlyAfterRecordWritten ==
    Built =>
        /\ RecordEntries # {} =>
              /\ RecordEntries = { Len(pkg.written_files) }
              /\ pc \in {"end_finish", "end_return"}
              /\ RecordText # <<>>
              /\ pkg.written_files[Len(pkg.written_files)].hash
                    = URL_SAFE_NO_PAD_encode(Sha256_digest(RecordText))
        /\ pc \in {"open", "end_metadata", "end_wheel", "end_top_level", "end_record"}
              => RecordEntries = {}
        /\ (RecordText # <<>> /\ \A k \in DOMAIN Files : ~HasLineBreak(Files[k].name)) =>
              /\ LineAt(RecordText, Len(RecordText)) = RecordPath \o <<",,">>
              /\ \A k \in Newlines(RecordText) :
                    IsPrefix(RecordPath, LineAt(RecordText, k)) => k = Len(RecordText)

\* RECORD has been written after a payload file: the manifest then holds it.
C7_Witness ==
    /\ Built /\ pc = "end_finish"
    /\ PayloadAt # {}
    /\ \A k \in DOMAIN Files : ~HasLineBreak(Files[k].name)
    /\ RecordEntries = { Len(pkg.written_files) }
    /\ Len(pkg.written_files) = Cardinality(PayloadAt) + 4

---------------------------------------------------------------------------
(* C8.                                                                     *)

DistInfoAt == { k \in DOMAIN Files : IsDistInfo(Files[k].name) }

\* C8: in the archive no payload member follows a dist-info member; the
\* dist-info members a build has written are, in order, a prefix of METADATA,
\* WHEEL, top_level.txt, RECORD; the archive is closed only when RECORD, the
\* last member, is written; a successful build ends with exactly these four.
C8_DistInfoLastInOrder ==
    Built =>
        /\ \A i, j \in DOMAIN Files :
              (i < j /\ IsDistInfo(Files[i].name)) => IsDistInfo(Files[j].name)
        /\ \A k \in DOMAIN Files : ~IsDistInfo(Files[k].name) => IsPayload(Files[k].name)
        /\ LET n == Cardinality(DistInfoAt)
               first == Len(Files) - n
           IN /\ n <= 4
              /\ \A k \in 1..n : Files[first + k].name = DistInfoPaths[k]
        /\ (pkg.zipfile.finished \/ BuildOk) =>
              /\ Cardinality(DistInfoAt) = 4
              /\ \A k \in DistInfoAt : Files[k].complete
              /\ Files[Len(Files)].name = RecordPath
        /\ BuildOk => pkg.zipfile.finished /\ ret.val = Files

\* A successful build of two payload files followed by the four dist-info files.
C8_Witness ==
    /\ BuildOk
    /\ Len(Files) = 6
    /\ IsPayload(Files[1].name) /\ IsPayload(Files[2].name)
    /\ Files[3].name = DistInfoPaths[1]
    /\ Files[6].name = DistInfoPaths[4]

---------------------------------------------------------------------------
(* C10.                                                                    *)

ManifestOf(p) == IF p = NoPkg THEN <<>> ELSE p.written_files

RECURSIVE EntriesOf(_)
\* The entries of the members both calls accepted, in archive order.
EntriesOf(files) ==
    IF files = <<>> THEN <<>>
    ELSE (IF Head(files).complete THEN <<ExpectedEntry(Head(files))>> ELSE <<>>)
         \o EntriesOf(Tail(files))

\* C10: the manifest holds one entry per write that succeeded, in write order,
\* each entry the member's full archive path, the base64url-no-padding SHA-256
\* of its bytes and its byte length; a write that returns Err leaves the
\* manifest as it was; a write only ever appends, and at most one entry.
C10_ManifestTracksWrites ==
    /\ [](Built => pkg.written_files = EntriesOf(Files))
    /\ [][ /\ IsPrefix(ManifestOf(pkg), ManifestOf(pkg'))
           /\ Len(ManifestOf(pkg')) <= Len(ManifestOf(pkg)) + 1
           /\ (calls' = calls + 1 /\ IsErr(ret')) => ManifestOf(pkg') = ManifestOf(pkg)
           /\ (calls' = calls + 1 /\ IsOk(ret')) =>
                 /\ Len(ManifestOf(pkg')) = Len(ManifestOf(pkg)) + 1
                 /\ IsPayloadOf(pkg', pkg'.written_files[Len(pkg'.written_files)].path) ]_vars

\* Before end: a write succeeded, then a write failed, and the manifest still
\* holds the one entry.
C10_Witness ==
    /\ Built /\ pc = "open"
    /\ calls = 2 /\ IsErr(ret)
    /\ Len(pkg.written_files) = 1
    /\ pkg.written_files[1].size = 3
    /\ IsPayload(pkg.written_files[1].path)

---------------------------------------------------------------------------
(* C4 and C5: the version normalizer.                                      *)

Ver == spec.package.version

\* "major.minor.patch".
Plain(v) == NatToText(v.major) \o <<".">> \o NatToText(v.minor) \o <<".">> \o NatToText(v.patch)

Normalized == driver = "semver" /\ pc = "done"

\* C4 (as claimed): without a pre-release identifier the result is the plain
\* major.minor.patch, with or without build metadata.
C4_PlainEvenWithBuild ==
    (Normalized /\ Ver.pre = <<>>) => ret = Ok(Plain(Ver))

\* C4 (amended): without a pre-release identifier the result is the plain
\* major.minor.patch when there is no build metadata, and major.minor.patch
\* followed by '+' and the build metadata when there is: the build metadata
\* is kept.
C4_PlainOrPlusBuild ==
    (Normalized /\ Ver.pre = <<>>) =>
        /\ Ver.build = <<>> => ret = Ok(Plain(Ver))
        /\ Ver.build # <<>> => ret = Ok(Plain(Ver) \o <<"+">> \o Ver.build)

\* 0.10.1+b7 has been normalized to "0.10.1+b7".
C4_Witness ==
    /\ Normalized
    /\ Ver = V(0, 10, 1, <<>>, <<"b", "7">>)
    /\ ret = Ok(<<"0", ".", "1", "0", ".", "1", "+", "b", "7">>)

PreCodes ==
    { [kind |-> alpha, code |-> <<"a">>],
      [kind |-> beta, code |-> <<"b">>],
      [kind |-> rc, code |-> <<"r", "c">>] }

\* C5: with a pre-release identifier and no build metadata, "<kind>.<N>" with
\* kind alpha, beta or rc gives major.minor.patch, then a, b or rc, then N;
\* any other kind, and an identifier without '.', panics.
C5_PreReleaseCodes ==
    (Normalized /\ Ver.pre # <<>> /\ Ver.build = <<>>) =>
        LET hit == { x \in PreCodes : IsPrefix(x.kind \o <<".">>, Ver.pre) } IN
        IF hit # {}
        THEN \A x \in hit :
                ret = Ok(Plain(Ver) \o x.code \o SubSeq(Ver.pre, Len(x.kind) + 2, Len(Ver.pre)))
        ELSE IsPanic(ret)

\* 11.2.0-rc.2 has been normalized to "11.2.0rc2".
C5_Witness ==
    /\ Normalized
    /\ Ver = V(11, 2, 0, rc \o <<".", "2">>, <<>>)
    /\ ret = Ok(<<"1", "1", ".", "2", ".", "0", "r", "c", "2">>)

---------------------------------------------------------------------------
(* C2: the platform tag table.                                             *)

TableTag(os, cpu) ==
    CASE os = "Macos" /\ cpu = "X86_64" -> "macosx_10_6_x86_64"
      [] os = "Macos" /\ cpu = "Aarch64" -> "macosx_11_0_arm64"
      [] os = "Linux" /\ cpu = "X86_64" ->
            "manylinux_2_17_x86_64.manylinux2014_x86_64.manylinux1_x86_64"
      [] os = "Linux" /\ cpu = "Aarch64" -> "manylinux_2_17_aarch64.manylinux2014_aarch64"
      [] os = "Windows" /\ cpu = "X86_64" -> "win_amd64"
      [] OTHER -> "unsupported"

\* C2: once write_base_packages has resolved the platform of a wheel, the tag
\* in the wheel's file name is the one the table lists for its (OS, CPU), and
\* for Windows/ARM64 the call has panicked instead.
C2_TagTable ==
    (driver = "base" /\ platform.some) =>
        IF platform.os = "Windows" /\ platform.cpu = "Aarch64"
        THEN pc = "panic" /\ wheel_name_v = <<>>
        ELSE wheel_name_v =
                pkg.python_package_name \o <<"-">> \o pkg.package_version
                \o <<"-", "py3", "-", "none", "-", TableTag(platform.os, platform.cpu), ".whl">>

---------------------------------------------------------------------------
(* C3: the initializer of the companion wrappers.                          *)

InitPath == pkg.python_package_name \o <<"/">> \o INIT_PY

InitWritten == Built /\ \E k \in CompleteAt : Files[k].name = InitPath

InitText == Files[CHOOSE k \in CompleteAt : Files[k].name = InitPath].data

BaseImportName == Replace(spec.package.name, "-", "_")

Occurs(w, text) ==
    \E o \in 1..Len(text) : o + Len(w) - 1 <= Len(text) /\ SubSeq(text, o, o + Len(w) - 1) = w

\* C3: the initializer a wrapper assembler writes imports the base package's
\* import name, calls its load between enabling and disabling extension
\* loading, and does not name the wrapper's own import name.
C3_WrapperImportsBase ==
    (driver \in {"datasette", "sqlite_utils"} /\ InitWritten) =>
        /\ (<<"import ">> \o BaseImportName) \in LinesOf(InitText)
        /\ \E i, j, k \in Newlines(InitText) :
              /\ i < j /\ j < k
              /\ LineAt(InitText, i) = <<"  conn.enable_load_extension(True)">>
              /\ LineAt(InitText, j) = <<"  ">> \o BaseImportName \o <<".load(conn)">>
              /\ LineAt(InitText, k) = <<"  conn.enable_load_extension(False)">>
        /\ ~Occurs(pkg.python_package_name, InitText)

---------------------------------------------------------------------------
(* C6: configuration errors.                                               *)

\* C6: when a configuration error (a panic of the normalizer, of the platform
\* table or of the assert on the payload list) stops a build, no member has
\* been written to that build's archive.
C6_ConfigErrorBeforeAnyWrite ==
    (driver \in {"base", "datasette", "sqlite_utils"} /\ pc = "panic") =>
        (pkg = NoPkg \/ pkg.zipfile.files = <<>>)

---------------------------------------------------------------------------
(* C9: errors in write_base_packages.                                      *)

Returned == IF IsOk(ret) THEN ret.val ELSE <<>>

PipKind(k) == <<"Pip", platform_dirs[k].os, platform_dirs[k].cpu>>

BaseFailed == driver = "base" /\ pc = "done" /\ IsErr(ret)

\* C9 (as claimed): when the wheel of one platform fails with an archive or
\* I/O error, the call still returns the asset of every other platform.
C9_OtherWheelsReturned ==
    BaseFailed =>
        \A k \in DOMAIN platform_dirs :
            k # idx => \E a \in DOMAIN Returned : Returned[a].kind = PipKind(k)

\* C9 (amended): an archive or I/O error while building one platform's wheel
\* ends the whole call with that error: the wheels of the platforms before it
\* were built but their assets are not returned, the platforms after it are
\* not built, and assets are returned only when every wheel was built.
C9_ErrorEndsTheCall ==
    (driver = "base" /\ pc = "done") =>
        /\ IsErr(ret) =>
              /\ idx \in DOMAIN platform_dirs
              /\ Len(assets) = idx - 1
              /\ ret.val \in { <<"ZipError">>, <<"IOError">> }
              /\ Returned = <<>>
        /\ IsOk(ret) =>
              /\ Len(ret.val) = Len(platform_dirs)
              /\ \A k \in DOMAIN platform_dirs : ret.val[k].kind = PipKind(k)
        /\ IsErr(ret) \/ IsOk(ret)

\* The second of two platforms failed: the first wheel was built, the call
\* returned the error and no asset.
C9_Witness ==
    /\ BaseFailed
    /\ Len(platform_dirs) = 2 /\ idx = 2
    /\ Len(assets) = 1
    /\ Returned = <<>>

===========================================================================
